---------------------------- MODULE Spec2Model ----------------------------
(***************************************************************************)
(* Model of ops_tf.py: the content-addressing primitives                   *)
(* (cosine_similarity, content_lookup), the argsort wrapper, the variable  *)
(* factory and the GradientToolkit diagnostic wrapper.                     *)
(*                                                                         *)
(* Tensors of reals are IEEE-754 binary floating-point values.  The dtype  *)
(* is the caller's; the model computes in the binary format Fmt (the       *)
(* bfloat16 layout: 8 significant bits, the exponent range of float32),    *)
(* with round-to-nearest-even, gradual underflow, overflow to infinity     *)
(* and NaN.  Signed zero is not distinguished (no operation of the file    *)
(* divides by a negative zero).                                            *)
(***************************************************************************)
EXTENDS Integers, Sequences, FiniteSets, TLC

(***************************************************************************)
(* Floating-point values.  A finite value is m * 2^e with |m| < 2^p;       *)
(* it is normalised (|m| >= 2^(p-1)) unless e = emin (subnormal) or m = 0  *)
(* (zero, e = 0).                                                          *)
(***************************************************************************)
Fmt == [p |-> 8, emin |-> -133, emax |-> 120]

NaN == [c |-> "nan", m |-> 0, e |-> 0]
Inf(s) == [c |-> "inf", m |-> s, e |-> 0]
Fin(m, e) == [c |-> "fin", m |-> m, e |-> e]
Zero == Fin(0, 0)

IsNaN(x) == x.c = "nan"
IsInf(x) == x.c = "inf"
IsFin(x) == x.c = "fin"
IsZero(x) == x.c = "fin" /\ x.m = 0

Abs(n) == IF n < 0 THEN -n ELSE n
Sgn(n) == IF n < 0 THEN -1 ELSE IF n = 0 THEN 0 ELSE 1
Max2(a, b) == IF a >= b THEN a ELSE b
Min2(a, b) == IF a <= b THEN a ELSE b

\* Number of bits of n >= 0 (0 for n = 0).
RECURSIVE BitLen(_)
BitLen(n) == IF n = 0 THEN 0 ELSE 1 + BitLen(n \div 2)

\* n * 2^k for n >= 0, k >= 0; the callers keep the result below 2^31.
Shl(n, k) == n * (2 ^ k)

\* Round s * M * 2^E (M >= 0; sticky: the exact value is slightly above
\* M * 2^E) to the format: nearest, ties to even; overflow gives infinity.
Round(s, M, E, sticky) ==
    IF M = 0 THEN Zero
    ELSE
      LET L == BitLen(M)
          e0 == Max2(E + L - Fmt.p, Fmt.emin)
          sh == e0 - E
      IN IF sh <= 0 THEN Fin(s * Shl(M, -sh), e0)
         ELSE IF sh > L + 1 THEN Zero
         ELSE
           LET q == M \div (2 ^ sh)
               r == M % (2 ^ sh)
               h == 2 ^ (sh - 1)
               up == (r > h) \/ (r = h /\ (sticky \/ q % 2 = 1))
               q1 == IF up THEN q + 1 ELSE q
               m1 == IF q1 = 2 ^ Fmt.p THEN 2 ^ (Fmt.p - 1) ELSE q1
               e1 == IF q1 = 2 ^ Fmt.p THEN e0 + 1 ELSE e0
           IN IF q1 = 0 THEN Zero
              ELSE IF e1 > Fmt.emax THEN Inf(s)
              ELSE Fin(s * m1, e1)

\* The value of the integer n, and of the ratio n / d (n, d > 0, n small),
\* as the conversion of a Python number to the tensor's dtype gives it.
FromInt(n) == Round(Sgn(n), Abs(n), 0, FALSE)
FromRatio(n, d) ==
    LET N == Shl(n, 30 - BitLen(n))
    IN Round(1, N \div d, -(30 - BitLen(n)), N % d # 0)
Pow2(k) == Fin(2 ^ (Fmt.p - 1), k - (Fmt.p - 1))

SignOf(x) == IF x.c = "nan" THEN 0 ELSE Sgn(x.m)

FNeg(x) == IF x.c = "nan" THEN NaN ELSE [x EXCEPT !.m = -x.m]

FMul(a, b) ==
    IF IsNaN(a) \/ IsNaN(b) THEN NaN
    ELSE IF IsInf(a) \/ IsInf(b)
         THEN IF IsZero(a) \/ IsZero(b) THEN NaN ELSE Inf(Sgn(a.m) * Sgn(b.m))
    ELSE Round(Sgn(a.m) * Sgn(b.m), Abs(a.m) * Abs(b.m), a.e + b.e, FALSE)

FDiv(a, b) ==
    IF IsNaN(a) \/ IsNaN(b) THEN NaN
    ELSE IF IsInf(a) THEN (IF IsInf(b) THEN NaN
                           ELSE Inf(Sgn(a.m) * (IF b.m < 0 THEN -1 ELSE 1)))
    ELSE IF IsInf(b) THEN Zero
    ELSE IF IsZero(b) THEN (IF IsZero(a) THEN NaN ELSE Inf(Sgn(a.m)))
    ELSE LET k == 2 * Fmt.p + 2
             N == Shl(Abs(a.m), k)
         IN Round(Sgn(a.m) * Sgn(b.m), N \div Abs(b.m), a.e - b.e - k,
                  N % Abs(b.m) # 0)

FAdd(a, b) ==
    IF IsNaN(a) \/ IsNaN(b) THEN NaN
    ELSE IF IsInf(a) THEN (IF IsInf(b) /\ b.m # a.m THEN NaN ELSE a)
    ELSE IF IsInf(b) THEN b
    ELSE IF IsZero(a) THEN b
    ELSE IF IsZero(b) THEN a
    ELSE LET hi == IF a.e >= b.e THEN a ELSE b
             lo == IF a.e >= b.e THEN b ELSE a
             d == hi.e - lo.e
         IN IF d > Fmt.p + 3 THEN hi
            ELSE LET M == hi.m * (2 ^ d) + lo.m
                 IN Round(Sgn(M), Abs(M), lo.e, FALSE)

\* floor(sqrt(n)) by bisection on lo <= sqrt(n) < hi.
RECURSIVE ISqrtIn(_, _, _)
ISqrtIn(n, lo, hi) ==
    IF hi - lo <= 1 THEN lo
    ELSE LET mid == (lo + hi) \div 2
         IN IF mid * mid <= n THEN ISqrtIn(n, mid, hi) ELSE ISqrtIn(n, lo, mid)
ISqrt(n) == ISqrtIn(n, 0, 32768)

FSqrt(a) ==
    IF IsNaN(a) THEN NaN
    ELSE IF IsInf(a) THEN (IF a.m > 0 THEN a ELSE NaN)
    ELSE IF a.m < 0 THEN NaN
    ELSE IF a.m = 0 THEN Zero
    ELSE LET k0 == 2 * Fmt.p + 6 - BitLen(a.m)
             k == IF (a.e - k0) % 2 = 0 THEN k0 ELSE k0 - 1
             N == Shl(a.m, k)
             s == ISqrt(N)
         IN Round(1, s, (a.e - k) \div 2, s * s # N)

\* exp: x = k*ln2 + r with 0 <= r < ln2 in fixed point (17 fraction bits),
\* exp(r) by its Taylor series in fixed point (14 fraction bits), rounded.
RECURSIVE ExpSeries(_, _, _, _)
ExpSeries(R, n, term, acc) ==
    IF term = 0 \/ n > 12 THEN acc
    ELSE LET t == (term * R) \div (n * 16384)
         IN ExpSeries(R, n + 1, t, acc + t)

Ln2Fix == [bits |-> 17, val |-> 90852]

FExp(a) ==
    IF IsNaN(a) THEN NaN
    ELSE IF IsInf(a) THEN (IF a.m > 0 THEN a ELSE Zero)
    ELSE IF a.m = 0 \/ a.e + BitLen(Abs(a.m)) < -(Fmt.p + 1) THEN FromInt(1)
    ELSE IF a.e + BitLen(Abs(a.m)) > 8 THEN (IF a.m > 0 THEN Inf(1) ELSE Zero)
    ELSE LET X == IF a.e + Ln2Fix.bits >= 0
                  THEN a.m * (2 ^ (a.e + Ln2Fix.bits))
                  ELSE a.m \div (2 ^ (-(a.e + Ln2Fix.bits)))
             k == X \div Ln2Fix.val
             r == X - k * Ln2Fix.val
             S == ExpSeries(r \div 8, 1, 16384, 16384)
         IN Round(1, S, k - 14, FALSE)

\* IEEE comparisons: every comparison with a NaN operand is false.
MagLt(a, b) ==  \* 0 <= a < b for finite non-negative a, b
    IF b.m = 0 THEN FALSE
    ELSE IF a.m = 0 THEN TRUE
    ELSE LET ha == a.e + BitLen(a.m)
             hb == b.e + BitLen(b.m)
             lo == Min2(a.e, b.e)
         IN IF ha # hb THEN ha < hb
            ELSE Shl(a.m, a.e - lo) < Shl(b.m, b.e - lo)

FLt(a, b) ==
    IF IsNaN(a) \/ IsNaN(b) THEN FALSE
    ELSE IF a = b THEN FALSE
    ELSE IF IsInf(a) THEN a.m < 0
    ELSE IF IsInf(b) THEN b.m > 0
    ELSE IF Sgn(a.m) # Sgn(b.m) THEN Sgn(a.m) < Sgn(b.m)
    ELSE IF a.m >= 0 THEN MagLt(a, b)
    ELSE MagLt(FNeg(b), FNeg(a))

FGt(a, b) == FLt(b, a)
FLe(a, b) == ~IsNaN(a) /\ ~IsNaN(b) /\ ~FLt(b, a)
FGe(a, b) == FLe(b, a)

(***************************************************************************)
(* Tensors.  A vector is a sequence of floating-point values; reduce_sum   *)
(* adds the elements from the first to the last.                           *)
(***************************************************************************)
RECURSIVE SumFrom(_, _, _)
SumFrom(v, i, acc) ==
    IF i > Len(v) THEN acc ELSE SumFrom(v, i + 1, FAdd(acc, v[i]))
ReduceSum(v) == IF Len(v) = 0 THEN Zero ELSE SumFrom(v, 2, v[1])

Mul(u, v) == [i \in 1..Len(u) |-> FMul(u[i], v[i])]
Square(u) == [i \in 1..Len(u) |-> FMul(u[i], u[i])]

\* 1e-6 converted to the tensor's dtype.
Epsilon == FromRatio(1, 1000000)

\* cosine_similarity with the 1e-6 of its denominator left out.
cosine_similarity_no_eps(u, v) ==
    FDiv(ReduceSum(Mul(u, v)),
         FMul(FSqrt(ReduceSum(Square(u))), FSqrt(ReduceSum(Square(v)))))

cosine_similarity(u, v) ==
    FDiv(ReduceSum(Mul(u, v)),
         FAdd(FMul(FSqrt(ReduceSum(Square(u))), FSqrt(ReduceSum(Square(v)))),
              Epsilon))

\* tf.squeeze on a shape: every dimension of size 1 is removed.
Squeeze(shape) == SelectSeq(shape, LAMBDA d : d # 1)

\* Line 76 with the sign of the exponent lost.
LocationsNegated(M, k, B) ==
    [i \in 1..Len(M) |-> FExp(FNeg(FMul(cosine_similarity(M[i], k), B)))]

\* tf.map_fn over the rows of M (line 76): one sharpened weight per row.
Locations(M, k, B) ==
    [i \in 1..Len(M) |-> FExp(FMul(cosine_similarity(M[i], k), B))]

\* Line 77 with the 1e-6 added to the weights before the division.
NormalizeEpsFirst(locations) ==
    LET total == ReduceSum(locations)
    IN [i \in 1..Len(locations) |-> FDiv(FAdd(locations[i], Epsilon), total)]

\* Line 77: locations / tf.reduce_sum(locations) + 1e-6.
Normalize(locations) ==
    LET total == ReduceSum(locations)
    IN [i \in 1..Len(locations) |-> FAdd(FDiv(locations[i], total), Epsilon)]

\* content_lookup(M, k, B): the tensor returned, its shape squeezed.
content_lookup(M, k, B) ==
    LET locations == Locations(M, k, B)
        r == Normalize(locations)
    IN [shape |-> Squeeze(<<Len(M)>>), data |-> r]

(***************************************************************************)
(* tf_argsort (lines 80-90).  np.argsort with its default kind (quicksort) *)
(* returns indices, counted from 0, that put v in ascending order; the     *)
(* order of equal elements is not specified.                               *)
(***************************************************************************)
Injective(f, n) == \A i, j \in 1..n : i # j => f[i] # f[j]
NpArgsortResults(v) ==
    {p \in [1..Len(v) -> 0..(Len(v) - 1)] :
        /\ Injective(p, Len(v))
        /\ \A i \in 1..(Len(v) - 1) : v[p[i] + 1] <= v[p[i + 1] + 1]}

\* tf.py_func(np.argsort, [v], [tf.int64]) gives a list of tensors, one for
\* each entry of its list of output types.
Tensor(data) == [kind |-> "tensor", data |-> data]
PyFuncList(out) == [kind |-> "list", items |-> <<Tensor(out)>>]

(***************************************************************************)
(* GradientToolkit (lines 114-149).  A gradient is the graph node of the   *)
(* gradient of the loss for the pair at a given index; a clipped gradient  *)
(* is the tf.clip_by_value node over it.  NoneVal is Python's None.        *)
(***************************************************************************)
NoneVal == [op |-> "None"]
GradNode(i) == [op |-> "gradient", of |-> i]
ClipNode(g, lo, hi) == [op |-> "clip_by_value", x |-> g, lo |-> lo, hi |-> hi]
ApplyNode(gvs) == [op |-> "apply_gradients", grads_and_vars |-> gvs]

\* tf.clip_by_value on one element: min(max(x, lo), hi); the comparisons
\* with a NaN are false, so a NaN stays a NaN.
clip_by_value(x, lo, hi) ==
    IF IsNaN(x) THEN NaN
    ELSE IF FLt(x, lo) THEN lo
    ELSE IF FLt(hi, x) THEN hi
    ELSE x

InitState == [filtered_grads_and_vars |-> <<>>, filtered_vars |-> <<>>,
              printed |-> <<>>, warn |-> FALSE, raised |-> "none"]

\* The loop with the name recorded before the test of line 129.
RECURSIVE InitLoopNameFirst(_, _, _)
InitLoopNameFirst(pairs, i, st) ==
    IF i > Len(pairs) THEN st
    ELSE LET grad == pairs[i].grad
             var == pairs[i].var
         IN IF var = NoneVal
            THEN [st EXCEPT !.warn = TRUE, !.raised = "AttributeError"]
            ELSE IF grad = NoneVal
            THEN InitLoopNameFirst(pairs, i + 1,
                   [st EXCEPT !.warn = TRUE,
                              !.filtered_vars = Append(@, var.name),
                              !.printed = Append(@, <<var.name, "=", "None">>)])
            ELSE InitLoopNameFirst(pairs, i + 1,
                   [st EXCEPT
                      !.filtered_grads_and_vars =
                          Append(@, <<ClipNode(grad, FromInt(-1), FromInt(1)), var>>),
                      !.filtered_vars = Append(@, var.name)])

\* The loop of __init__ (lines 127-134) from pair i on.  st holds the two
\* lists, the lines printed, warn, and the exception raised ("none").
RECURSIVE InitLoop(_, _, _)
InitLoop(pairs, i, st) ==
    IF i > Len(pairs) THEN st
    ELSE LET grad == pairs[i].grad
             var == pairs[i].var
         IN IF var = NoneVal \/ grad = NoneVal
            THEN IF var = NoneVal
                 THEN [st EXCEPT !.warn = TRUE, !.raised = "AttributeError"]
                 ELSE InitLoop(pairs, i + 1,
                        [st EXCEPT !.warn = TRUE,
                                   !.printed = Append(@, <<var.name, "=", "None">>)])
            ELSE InitLoop(pairs, i + 1,
                   [st EXCEPT
                      !.filtered_grads_and_vars =
                          Append(@, <<ClipNode(grad, FromInt(-1), FromInt(1)), var>>),
                      !.filtered_vars = Append(@, var.name)])

\* __init__ (lines 119-142): the loop, the warning, the apply step.
\* The exception of the loop leaves __init__ at once; otherwise warn
\* decides the warnings.warn call and line 142 builds the apply step.
GradientToolkitInit(pairs) ==
    LET loop == InitLoop(pairs, 1, InitState)
    IN IF loop.raised # "none"
       THEN loop @@ [apply_grads |-> NoneVal, warned |-> FALSE]
       ELSE loop @@ [apply_grads |-> ApplyNode(loop.filtered_grads_and_vars),
                     warned |-> loop.warn]

\* The optimizer's step on the variables: each variable of the list has
\* its clipped gradient subtracted.
ApplyStep(fgv, vals, clipped) ==
    [n \in DOMAIN vals |->
        IF \E i \in 1..Len(fgv) : fgv[i][2].name = n
        THEN LET i == CHOOSE j \in 1..Len(fgv) : fgv[j][2].name = n
             IN FAdd(vals[n], FNeg(clipped[i]))
        ELSE vals[n]]

Clipped(fgv, raw) ==
    [i \in 1..Len(fgv) |-> clip_by_value(raw[i], fgv[i][1].lo, fgv[i][1].hi)]

\* A run that executes the apply step twice.
SessionRunTwice(fgv, vals, steps, raw, before) ==
    LET clipped == Clipped(fgv, raw)
        updated == ApplyStep(fgv, ApplyStep(fgv, vals, clipped), clipped)
    IN [fetched |-> [i \in 1..Len(fgv) |->
                        <<clipped[i],
                          IF before[i] THEN vals[fgv[i][2].name]
                          ELSE updated[fgv[i][2].name]>>],
        values |-> updated,
        nsteps |-> steps + 2]

\* One session.run of [filtered_grads_and_vars, apply_grads] (lines
\* 145-146).  raw[i] is the value of gradient i for the feed, before[i]
\* tells whether variable i is read before the update.  Gives the fetched
\* (gradient, variable) values, the variables after the step and the
\* number of steps executed.
SessionRun(fgv, vals, steps, raw, before) ==
    LET clipped == Clipped(fgv, raw)
        updated == ApplyStep(fgv, vals, clipped)
    IN [fetched |-> [i \in 1..Len(fgv) |->
                        <<clipped[i],
                          IF before[i] THEN vals[fgv[i][2].name]
                          ELSE updated[fgv[i][2].name]>>],
        values |-> updated,
        nsteps |-> steps + 1]

\* The loop of diagnose_grads (lines 147-149) over zip(grads, filtered_vars),
\* grads being the list [fetched, None] that session.run returned: the
\* lines printed.
Diagnostic(name) == <<"Looks like", name, "has a NaN gradient!">>
DiagnoseLoop(fetched, names) ==
    LET grads == <<[none |-> FALSE, val |-> fetched], [none |-> TRUE, val |-> <<>>]>>
        n == Min2(Len(grads), Len(names))
        Truthy(g) == ~g.none /\ g.val # <<>>
        \* np.any(np.isnan(g[0])): g[0] is the first fetched pair.
        AnyNaN(g) == \E j \in 1..Len(g.val[1]) : IsNaN(g.val[1][j])
        Hit(i) == Truthy(grads[i]) /\ AnyNaN(grads[i])
    IN [i \in 1..n |-> IF Hit(i) THEN <<Diagnostic(names[i])>> ELSE <<>>]

RECURSIVE Flatten(_, _)
Flatten(ss, i) == IF i > Len(ss) THEN <<>> ELSE ss[i] \o Flatten(ss, i + 1)

(***************************************************************************)
(* VariableFactory (lines 97-111).  g is the graph's list of variables;    *)
(* tf.get_variable creates the variable of a new name and raises           *)
(* ValueError for a name that exists.  An outcome is the graph after the   *)
(* call, the variable returned (a list of one, or none) and the exception. *)
(***************************************************************************)
get_variable(g, name, shape, dt, initializer, kwargs) ==
    IF \E i \in 1..Len(g) : g[i].name = name
    THEN [graph |-> g, var |-> <<>>, raised |-> "ValueError"]
    ELSE LET var == [name |-> name, shape |-> shape, dtype |-> dt,
                     initializer |-> initializer, kwargs |-> kwargs]
         IN [graph |-> Append(g, var), var |-> <<var>>, raised |-> "none"]

\* Line 105: the initializer is tf.constant_initializer(1e-6).
zeros(g, dt, name, shape, kwargs) ==
    get_variable(g, name, shape, dt, "constant(1e-6)", kwargs)

\* Line 108: the arguments of the call name kwards, which is not defined:
\* evaluating them raises NameError before tf.get_variable is entered.
ones(g, dt, name, shape, kwargs) ==
    [graph |-> g, var |-> <<>>, raised |-> "NameError"]

\* Line 111.
random(g, dt, name, shape, kwargs) ==
    get_variable(g, name, shape, dt, "random_normal", kwargs)

(***************************************************************************)
(* State.                                                                  *)
(***************************************************************************)
VARIABLES
    pc,     \* position of the call being modelled
    a, b,   \* cosine_similarity: the two input vectors
    s,      \* cosine_similarity: the returned scalar
    M, k, B,  \* content_lookup: memory matrix, key, strength
    r,      \* content_lookup: the returned tensor
    v,      \* tf_argsort: the input vector
    indices,  \* tf_argsort: what the call returned
    dtype,  \* VariableFactory: self.dtype
    graph,  \* VariableFactory: the variables tf.get_variable has created
    ret,    \* VariableFactory: the last call, what it returned or raised
    grads_and_vars,  \* GradientToolkit: what compute_gradients returned
    filtered_grads_and_vars, filtered_vars, apply_grads,  \* its attributes
    printed,   \* GradientToolkit: lines __init__ printed
    warned,    \* GradientToolkit: whether warnings.warn was called
    raised,    \* GradientToolkit: the exception __init__ raised, or "none"
    values,    \* the optimizer's variables: name -> value
    nsteps,    \* apply-gradients steps the session has executed
    ncalls,    \* diagnose_grads calls made
    fetched,   \* the (gradient, variable) values the last run returned
    diag       \* lines the last diagnose_grads call printed

cosVars == <<a, b, s>>
lookupVars == <<M, k, B, r>>
sortVars == <<v, indices>>
factoryVars == <<dtype, graph, ret>>
toolkitAttrs == <<filtered_grads_and_vars, filtered_vars, apply_grads>>
toolkitVars == <<grads_and_vars, toolkitAttrs, printed, warned, raised,
                 values, nsteps, ncalls, fetched, diag>>
vars == <<pc, cosVars, lookupVars, sortVars, factoryVars, toolkitVars>>

None == [c |-> "none", m |-> 0, e |-> 0]
NoTensor == [shape |-> <<>>, data |-> <<>>]

CosIdle == a = <<>> /\ b = <<>> /\ s = None
LookupIdle == M = <<>> /\ k = <<>> /\ B = None /\ r = NoTensor
SortIdle == v = <<>> /\ indices = <<>>
FactoryIdle == dtype = "none" /\ graph = <<>> /\ ret = <<>>
ToolkitIdle ==
    /\ grads_and_vars = <<>>
    /\ filtered_grads_and_vars = <<>> /\ filtered_vars = <<>>
    /\ apply_grads = NoneVal
    /\ printed = <<>> /\ warned = FALSE /\ raised = "none"
    /\ values = <<>> /\ nsteps = 0 /\ ncalls = 0
    /\ fetched = <<>> /\ diag = <<>>

(***************************************************************************)
(* cosine_similarity(a, b) on same-length vectors.                         *)
(***************************************************************************)
MaxW == 2
Comps == {Zero, FromInt(1), FromInt(-1), Pow2(-5), Pow2(-10), Pow2(64),
          Pow2(60), Pow2(-100)}
Vectors(n) == [1..n -> Comps]

CosInit ==
    /\ pc = "start"
    /\ \E n \in 1..MaxW : a \in Vectors(n) /\ b \in Vectors(n)
    /\ s = None
    /\ LookupIdle /\ SortIdle /\ FactoryIdle /\ ToolkitIdle

CosCall ==
    /\ pc = "start"
    /\ s' = cosine_similarity(a, b)
    /\ pc' = "done"
    /\ UNCHANGED <<a, b, lookupVars, sortVars, factoryVars, toolkitVars>>

CosNext == CosCall
SpecCos == CosInit /\ [][CosNext]_vars

(***************************************************************************)
(* content_lookup(M, k, B).                                                *)
(***************************************************************************)
MaxN == 3
Rows == {<<FromInt(1), Zero>>, <<Zero, FromInt(1)>>, <<FromInt(1), FromInt(1)>>,
         <<FromInt(-1), Zero>>, <<Zero, Zero>>}
Keys == {<<FromInt(1), Zero>>, <<FromInt(1), FromInt(1)>>}
Betas == {Zero, FromInt(1), FromInt(10), FromInt(50), FromInt(88), FromInt(100)}

LookupInit ==
    /\ pc = "start"
    /\ \E n \in 1..MaxN : M \in [1..n -> Rows]
    /\ k \in Keys
    /\ B \in Betas
    /\ r = NoTensor
    /\ CosIdle /\ SortIdle /\ FactoryIdle /\ ToolkitIdle

LookupCall ==
    /\ pc = "start"
    /\ r' = content_lookup(M, k, B)
    /\ pc' = "done"
    /\ UNCHANGED <<M, k, B, cosVars, sortVars, factoryVars, toolkitVars>>

LookupNext == LookupCall
SpecLookup == LookupInit /\ [][LookupNext]_vars

(***************************************************************************)
(* tf_argsort(v).                                                          *)
(***************************************************************************)
MaxLen == 4
Elems == 1..3

SortInit ==
    /\ pc = "start"
    /\ \E n \in 1..MaxLen : v \in [1..n -> Elems]
    /\ indices = <<>>
    /\ CosIdle /\ LookupIdle /\ FactoryIdle /\ ToolkitIdle

tf_argsort ==
    /\ pc = "start"
    /\ \E p \in NpArgsortResults(v) : indices' = PyFuncList(p)
    /\ pc' = "done"
    /\ UNCHANGED <<v, cosVars, lookupVars, factoryVars, toolkitVars>>

SortNext == tf_argsort
SpecSort == SortInit /\ [][SortNext]_vars

(***************************************************************************)
(* VariableFactory: a factory of some dtype, and calls of its methods.     *)
(***************************************************************************)
VarNames == {"x", "y", "z"}
Shapes == {<<2>>, <<2, 3>>}
Dtypes == {"float32", "float64"}
KwargSets == {<<>>, [trainable |-> FALSE]}

FactoryInit ==
    /\ pc = "ready"
    /\ dtype \in Dtypes
    /\ graph = <<>>
    /\ ret = [call |-> "none", var |-> <<>>, raised |-> "none"]
    /\ CosIdle /\ LookupIdle /\ SortIdle /\ ToolkitIdle

FactoryFrame ==
    UNCHANGED <<pc, dtype, cosVars, lookupVars, sortVars, toolkitVars>>

CallZeros ==
    \E name \in VarNames, shape \in Shapes, kwargs \in KwargSets :
        LET out == zeros(graph, dtype, name, shape, kwargs)
        IN /\ pc = "ready"
           /\ graph' = out.graph
           /\ ret' = [call |-> "zeros", var |-> out.var, raised |-> out.raised]
           /\ FactoryFrame

CallOnes ==
    \E name \in VarNames, shape \in Shapes, kwargs \in KwargSets :
        LET out == ones(graph, dtype, name, shape, kwargs)
        IN /\ pc = "ready"
           /\ graph' = out.graph
           /\ ret' = [call |-> "ones", var |-> out.var, raised |-> out.raised]
           /\ FactoryFrame

CallRandom ==
    \E name \in VarNames, shape \in Shapes, kwargs \in KwargSets :
        LET out == random(graph, dtype, name, shape, kwargs)
        IN /\ pc = "ready"
           /\ graph' = out.graph
           /\ ret' = [call |-> "random", var |-> out.var, raised |-> out.raised]
           /\ FactoryFrame

FactoryNext == CallZeros \/ CallOnes \/ CallRandom
SpecFactory == FactoryInit /\ [][FactoryNext]_vars

(***************************************************************************)
(* GradientToolkit: construction, then diagnose_grads calls.               *)
(***************************************************************************)
MaxPairs == 2
MaxCalls == 2
Names == <<"w1", "w2", "w3", "w4">>
GradValues == {FromInt(-2), Zero, FromInt(1), NaN}

\* The pair lists compute_gradients may return: in pair i the gradient is
\* that of pair i or None, the variable is variable i or None.
PairsAt(i) == [grad : {NoneVal, GradNode(i)}, var : {NoneVal, [name |-> Names[i]]}]
PairLists ==
    UNION {{pl \in [1..n -> UNION {PairsAt(i) : i \in 1..n}] :
              \A i \in 1..n : pl[i] \in PairsAt(i)} : n \in 0..MaxPairs}

ToolkitInit ==
    /\ pc = "new"
    /\ grads_and_vars \in PairLists
    /\ filtered_grads_and_vars = <<>> /\ filtered_vars = <<>>
    /\ apply_grads = NoneVal
    /\ printed = <<>> /\ warned = FALSE /\ raised = "none"
    /\ values = [n \in {grads_and_vars[i].var.name :
                          i \in {j \in 1..Len(grads_and_vars) :
                                   grads_and_vars[j].var # NoneVal}} |-> Zero]
    /\ nsteps = 0 /\ ncalls = 0
    /\ fetched = <<>> /\ diag = <<>>
    /\ CosIdle /\ LookupIdle /\ SortIdle /\ FactoryIdle

ToolkitFrame == UNCHANGED <<cosVars, lookupVars, sortVars, factoryVars>>

\* GradientToolkit(optimizer_fn, loss_fn).
Construct ==
    /\ pc = "new"
    /\ LET obj == GradientToolkitInit(grads_and_vars)
       IN /\ filtered_grads_and_vars' = obj.filtered_grads_and_vars
          /\ filtered_vars' = obj.filtered_vars
          /\ apply_grads' = obj.apply_grads
          /\ printed' = obj.printed
          /\ warned' = obj.warned
          /\ raised' = obj.raised
          /\ pc' = IF obj.raised = "none" THEN "constructed" ELSE "failed"
    /\ UNCHANGED <<grads_and_vars, values, nsteps, ncalls, fetched, diag>>
    /\ ToolkitFrame

\* diagnose_grads(session, feed_dict).
diagnose_grads ==
    /\ pc = "constructed"
    /\ ncalls < MaxCalls
    /\ \E raw \in [1..Len(filtered_vars) -> GradValues],
          before \in [1..Len(filtered_vars) -> BOOLEAN] :
         LET run == SessionRun(filtered_grads_and_vars, values, nsteps, raw, before)
         IN /\ fetched' = run.fetched
            /\ values' = run.values
            /\ nsteps' = run.nsteps
            /\ diag' = Flatten(DiagnoseLoop(run.fetched, filtered_vars), 1)
    /\ ncalls' = ncalls + 1
    /\ UNCHANGED <<pc, grads_and_vars, toolkitAttrs, printed, warned, raised>>
    /\ ToolkitFrame

ToolkitNext == Construct \/ diagnose_grads
SpecToolkit == ToolkitInit /\ [][ToolkitNext]_vars

(***************************************************************************)
(* Properties of cosine_similarity (checked under SpecCos).                *)
(***************************************************************************)
Dot(u, w) == ReduceSum(Mul(u, w))
NormSq(u) == ReduceSum(Square(u))
NonZero(u) == \E i \in 1..Len(u) : ~IsZero(u[i])
Negated(u) == [i \in 1..Len(u) |-> FNeg(u[i])]
\* |x - n| <= 1/32 for n = 1 or n = -1.
Near(x, n) ==
    /\ FLe(FromRatio(31, 32), FMul(x, FromInt(n)))
    /\ FLe(FMul(x, FromInt(n)), FromRatio(33, 32))
\* Position of the leading bit of a finite non-zero value.
Height(x) == x.e + BitLen(Abs(x.m))
Denominator(u, w) ==
    FAdd(FMul(FSqrt(NormSq(u)), FSqrt(NormSq(w))), Epsilon)
NoOverflow(u, w) == IsFin(Dot(u, w)) /\ IsFin(NormSq(u)) /\ IsFin(NormSq(w))
\* The exact quotient lies below the smallest subnormal.
QuotientUnderflows(u, w) ==
    /\ ~IsZero(Dot(u, w))
    /\ Height(Dot(u, w)) - Height(Denominator(u, w)) <= Fmt.emin + 1

N == Len(M)
Similarity(i) == cosine_similarity(M[i], k)
Weight(i) == Locations(M, k, B)[i]
Total == ReduceSum(Locations(M, k, B))
WeightsFinite == \A i \in 1..N : IsFin(Weight(i))
\* A finite value x >= 2^-27 as an integer number of 2^-27.
Scaled(x) ==
    IF x.e + 27 >= 0 THEN x.m * (2 ^ (x.e + 27))
    ELSE x.m \div (2 ^ (0 - (x.e + 27)))
\* Every entry is a finite value of at most 2.
Bounded(w) == \A i \in 1..Len(w) : IsFin(w[i]) /\ FLe(w[i], FromInt(2))
RECURSIVE ScaledSum(_, _)
ScaledSum(w, i) == IF i > Len(w) THEN 0 ELSE Scaled(w[i]) + ScaledSum(w, i + 1)
ExampleM == << <<FromInt(1), Zero>>, <<Zero, FromInt(1)>>,
               <<FromInt(1), FromInt(1)>> >>
ExampleInput == M = ExampleM /\ k = <<FromInt(1), Zero>> /\ B = FromInt(10)

C3_AsStated == pc = "done" => r.shape = <<N>> /\ Len(r.data) = N

(***************************************************************************)
(* Properties of tf_argsort (checked under SpecSort).                      *)
(***************************************************************************)
StableArgsort(w) ==
    CHOOSE p \in NpArgsortResults(w) :
        \A i \in 1..(Len(w) - 1) :
            w[p[i] + 1] = w[p[i + 1] + 1] => p[i] < p[i + 1]

\* C9 as stated: the call returns one vector, the stable ascending
\* argsort of v.
C9_AsStated == pc = "done" => indices = Tensor(StableArgsort(v))

(***************************************************************************)
(* Properties of VariableFactory (checked under SpecFactory).              *)
(***************************************************************************)
\* C10 as stated: ones returns, without raising, a variable of the
\* factory's dtype whose elements are all 1.
C10_AsStated ==
    ret.call = "ones" =>
        /\ ret.raised = "none"
        /\ Len(ret.var) = 1
        /\ ret.var[1].dtype = dtype
        /\ ret.var[1].initializer = "ones"

(***************************************************************************)
(* Properties of GradientToolkit (checked under SpecToolkit).              *)
(***************************************************************************)
Missing(pair) == pair.grad = NoneVal \/ pair.var = NoneVal
Kept == SelectSeq(grads_and_vars, LAMBDA pair : ~Missing(pair))
Range(seq) == {seq[i] : i \in 1..Len(seq)}

\* C4 as stated: whatever pairs compute_gradients returned, construction
\* completes without raising, every pair with a missing gradient or
\* variable is reported with a warning and is excluded from
\* filtered_grads_and_vars, and the apply step is built from the rest.
C4_AsStated ==
    pc \in {"constructed", "failed"} =>
        /\ raised = "none"
        /\ (\E i \in 1..Len(grads_and_vars) : Missing(grads_and_vars[i])) => warned
        /\ \A i \in 1..Len(grads_and_vars) :
              Missing(grads_and_vars[i]) /\ grads_and_vars[i].var # NoneVal =>
                  /\ <<grads_and_vars[i].var.name, "=", "None">> \in Range(printed)
                  /\ grads_and_vars[i].var.name \notin Range(filtered_vars)
        /\ Len(filtered_grads_and_vars) = Len(Kept)
        /\ apply_grads = ApplyNode(filtered_grads_and_vars)

\* C5: after construction filtered_grads_and_vars holds exactly the pairs
\* with both parts present, in their order, each gradient under a clip to
\* [-1, 1] and with its own variable; filtered_vars holds their names at
\* the same indices; the apply step is built from exactly that list; and
\* every gradient value a run fetches is NaN or lies in [-1, 1].
C5_FilteredAndClipped ==
    pc = "constructed" =>
        /\ filtered_grads_and_vars =
              [i \in 1..Len(Kept) |->
                  <<ClipNode(Kept[i].grad, FromInt(-1), FromInt(1)), Kept[i].var>>]
        /\ filtered_vars = [i \in 1..Len(Kept) |-> Kept[i].var.name]
        /\ apply_grads = ApplyNode(filtered_grads_and_vars)
        /\ \A i \in 1..Len(fetched) :
              \/ IsNaN(fetched[i][1])
              \/ FLe(FromInt(-1), fetched[i][1]) /\ FLe(fetched[i][1], FromInt(1))

\* Witness: a pair without gradient was dropped, a later pair kept, and a
\* run fetched a gradient clipped to -1.
C5_Witness ==
    /\ pc = "constructed"
    /\ Len(grads_and_vars) = 2 /\ Missing(grads_and_vars[1])
    /\ filtered_vars = <<Names[2]>>
    /\ ncalls > 0 /\ fetched[1][1] = FromInt(-1)

\* C6 as stated: after a call, a diagnostic names variable i exactly when
\* the gradient fetched for variable i contains a NaN, for every index i.
C6_AsStated ==
    pc = "constructed" /\ ncalls > 0 =>
        \A i \in 1..Len(filtered_vars) :
            IsNaN(fetched[i][1]) <=> Diagnostic(filtered_vars[i]) \in Range(diag)

\* C7: construction executes no optimizer step; each diagnose_grads call
\* executes exactly one; the variables change only in such a step; and a
\* call leaves filtered_grads_and_vars, filtered_vars and apply_grads
\* unchanged.
C7_OneStepPerCall ==
    /\ [](nsteps = ncalls)
    /\ [][/\ pc = "new" => nsteps' = nsteps /\ values' = values
          /\ ncalls' # ncalls =>
                /\ ncalls' = ncalls + 1 /\ nsteps' = nsteps + 1
                /\ UNCHANGED toolkitAttrs
          /\ ncalls' = ncalls => nsteps' = nsteps /\ values' = values]_vars

\* Witness: a second call has run on the same toolkit and changed a
\* variable.
C7_Witness ==
    /\ pc = "constructed" /\ ncalls = 2 /\ nsteps = 2
    /\ \E n \in DOMAIN values : values[n] # Zero

=============================================================================
